---- MODULE Spec2Model ----
(***************************************************************************)
(* Tool dispatch and progress notification of the Gemini MCP server.       *)
(*                                                                         *)
(*   - src/src/index.ts: the CallToolRequestSchema handler, the progress   *)
(*     channel (startProgressUpdates / stopProgressUpdates and the         *)
(*     setInterval callback) and the three module-level variables          *)
(*     isProcessing, currentOperationName, latestOutput.                   *)
(*   - src/test-runner.js (second half, the demo server started by         *)
(*     run.sh): toolRegistry, registerTool, SimpleMCPServer.handleRequest. *)
(*   - src/src/tools/*.ts and the Gemini client: what an execute pushes,   *)
(*     returns and throws, the requests it sends, and the media library    *)
(*     of tools/media-management.ts.                                       *)
(*                                                                         *)
(* Spec is the TypeScript server with two invocations; SpecDemo, the demo  *)
(* server's tools/call; SpecRegistry, its registry; SpecClassify, the      *)
(* catch block of the handler on every value that can be thrown;           *)
(* SpecMedia, the media tools.                                             *)
(*                                                                         *)
(* JavaScript runs the handler on one thread: code between two awaits is   *)
(* one atomic step.  An invocation therefore takes a step when it is       *)
(* dispatched (up to the first await inside execute), each time the tool   *)
(* resumes to push a status, and when execute settles (the continuation    *)
(* of `await executeTool` up to the return).  The interval timer of an     *)
(* invocation expires (its callback becomes due) and later fires (the      *)
(* callback runs); clearInterval removes it in either state.               *)
(*                                                                         *)
(* Strings that are built from parts are tuples of their parts, so that    *)
(* "the text contains the name" is a membership test.  Status strings,     *)
(* which the code slices and trims, are tuples of characters.              *)
(***************************************************************************)
EXTENDS Integers, Sequences, FiniteSets, TLC

(* ------------------------------ bounds --------------------------------- *)

\* timer expiries in one run, over all invocations
MaxTicks == 2

\* intervals that elapse while one long operation runs
MaxLongTicks == 101

\* requests the demo server handles in one run
MaxDemoRequests == 3

\* calls of registerTool before the demo server starts
MaxRegistrations == 3

\* media ids handed out in one run
MaxMedia == 2

(* ------------------------- program constants --------------------------- *)

\* latestOutput.slice(-100)
SliceLen == 100

\* z.string().max(2000) of ImageGenerationSchema.prompt
ImagePromptMax == 2000

\* z.string().max(16000) of TextGenerationSchema.prompt
TextPromptMax == 16000

\* args.limit || 10 of list_generated_media
DefaultLimit == 10

\* GEMINI_CONFIG.MAX_RETRIES
MAX_RETRIES == 3

\* the five rotating phase messages of startProgressUpdates
progressMessages == <<"Preparing your creative request...",
                      "Connecting to Gemini AI models...",
                      "Generating content (this may take a moment)...",
                      "Still processing... Quality results take time...",
                      "Finalizing your media output...">>

(* ------------------------------ inputs --------------------------------- *)

\* two calls the transport delivers, in flight at the same time or not
Invocations == {"A", "B"}

\* names a caller may send; the first two are registered by the tool modules
ToolNames == {"generate_text", "batch_generate_images", "missing_tool"}

\* request.params._meta?.progressToken : string | number | undefined
\* ("num:0" is the number 0, "str:a" the string "a")
Tokens == {"undefined", "num:0", "str:a", "str:b"}

\* JavaScript truthiness of a progress token, as tested by `if (progressToken)`
Truthy(tok) == tok \notin {"undefined", "num:0", "str:"}

\* an absent property
Absent == -1

\* mediaId: "", among media ids that are numbered from 1
EmptyId == 0

\* items of a valid batch request
BatchItems == 2

\* request.params.arguments, reduced to the properties the schemas of the
\* modelled tools constrain: the length of `prompt`, the value of `model`
\* and the number of `items` (Absent / "absent" when the property is missing)
Args(p, m, n) == [prompt |-> p, model |-> m, items |-> n]

ArgSets ==
    { Args(2, "absent", Absent),                  \* { prompt: "hi" }
      Args(2, "gemini-2.5-flash", Absent),        \* with a model of generate_text
      Args(2, "imagen3", BatchItems),             \* a batch with a model
      Args(2, "absent", BatchItems),              \* a batch without one
      Args(Absent, "absent", BatchItems),         \* prompt missing
      Args(0, "absent", BatchItems),              \* prompt: ""
      Args(ImagePromptMax + 1, "absent", BatchItems),
      Args(TextPromptMax + 1, "absent", BatchItems),
      Args(2, "bogus", BatchItems),               \* model outside both enums
      Args(2, "absent", 0),                       \* items: []
      Args(2, "absent", 11) }                     \* 11 items

\* what a call of the Gemini client can fail with: every catch block of
\* GeminiAPIClient rethrows a GeminiAPIError that carries a code, either the
\* code of the HTTP error response or the client's own
ApiErrorFault ==
    [cls |-> "GeminiAPIError", message |-> "Gemini API error: quota exceeded",
     code |-> "RESOURCE_EXHAUSTED", statusCode |-> "429"]

TextFailedFault ==
    [cls |-> "GeminiAPIError", message |-> "Text generation failed: boom",
     code |-> "TEXT_GENERATION_FAILED", statusCode |-> "undefined"]

\* one fault of each kind is modelled: the client's own for generateText,
\* the HTTP one for generateImage
BackendFaults(toolName) ==
    IF toolName = "generate_text" THEN {TextFailedFault} ELSE {ApiErrorFault}

\* what a call of the Gemini client can return
BackendResults == {"lorem ipsum"}

(* ------------------------------ strings -------------------------------- *)

ProcessingTextStatus ==
    <<"P","r","o","c","e","s","s","i","n","g"," ","t","e","x","t"," ","g",
      "e","n","e","r","a","t","i","o","n"," ","r","e","q","u","e","s","t",
      ".",".",".">>

TextGeneratedStatus ==
    <<"T","e","x","t"," ","g","e","n","e","r","a","t","e","d"," ","s","u",
      "c","c","e","s","s","f","u","l","l","y","!">>

GeneratingImagePrefix ==
    <<"G","e","n","e","r","a","t","i","n","g"," ","i","m","a","g","e"," ">>

AllImagesStatus ==
    <<"A","l","l"," ","i","m","a","g","e","s"," ","g","e","n","e","r","a",
      "t","e","d"," ","s","u","c","c","e","s","s","f","u","l","l","y","!">>

ErrorPrefix ==
    <<"E","r","r","o","r",":"," ">>

ApiErrorChars ==
    <<"G","e","m","i","n","i"," ","A","P","I"," ","e","r","r","o","r",":",
      " ","q","u","o","t","a"," ","e","x","c","e","e","d","e","d">>

TextFailedChars ==
    <<"T","e","x","t"," ","g","e","n","e","r","a","t","i","o","n"," ","f",
      "a","i","l","e","d",":"," ","b","o","o","m">>

\* the characters of a fault's message
CharsOf(message) ==
    CASE message = ApiErrorFault.message -> ApiErrorChars
      [] message = TextFailedFault.message -> TextFailedChars
      [] OTHER -> <<>>

\* the decimal digit k as a character
Digit(k) == <<"0","1","2","3","4","5","6","7","8","9">>[k + 1]

\* `Generating image ${i + 1}/${totalItems}...`
GeneratingImageStatus(k, n) ==
    GeneratingImagePrefix \o <<Digit(k), "/", Digit(n), ".", ".", ".">>

\* s.slice(-n)
Slice(s, n) == IF Len(s) <= n THEN s ELSE SubSeq(s, Len(s) - n + 1, Len(s))

RECURSIVE TrimStart(_)
TrimStart(s) == IF s # <<>> /\ Head(s) = " " THEN TrimStart(Tail(s)) ELSE s

RECURSIVE TrimEnd(_)
TrimEnd(s) ==
    IF s # <<>> /\ s[Len(s)] = " " THEN TrimEnd(SubSeq(s, 1, Len(s) - 1)) ELSE s

\* s.trim()
Trim(s) == TrimEnd(TrimStart(s))

\* an excerpt that is always empty
OutputPreviewEmpty(output) == <<>>

\* latestOutput.slice(-100).trim()
OutputPreview(output) == Trim(Slice(output, SliceLen))

(* ------------------------ argument schemas ----------------------------- *)

\* TextGenerationSchema: prompt is required, 1..16000 characters; model is
\* an enum with a default, so it may be missing
TextGenerationSchemaOk(args) ==
    /\ args.prompt # Absent
    /\ args.prompt >= 1
    /\ args.prompt <= TextPromptMax
    /\ args.model \in {"absent", "gemini-2.5-flash", "gemini-2.0-flash-exp"}

\* ImageGenerationSchema.extend({items}) of batch_generate_images: prompt is
\* required, 1..2000 characters; model is an enum with a default; items is a
\* required array of 1..10 entries
BatchImageSchemaOk(args) ==
    /\ args.prompt # Absent
    /\ args.prompt >= 1
    /\ args.prompt <= ImagePromptMax
    /\ args.model \in {"absent", "nano-banana", "imagen3", "imagen4"}
    /\ args.items # Absent
    /\ args.items >= 1
    /\ args.items <= 10

\* the zodSchema of a registered tool accepts the arguments
SchemaOk(toolName, args) ==
    IF toolName = "generate_text"
    THEN TextGenerationSchemaOk(args)
    ELSE BatchImageSchemaOk(args)

(* --------------------- registry (tools/registry.ts) -------------------- *)

\* the names the tool modules register when they are imported
RegisteredTools == {"generate_text", "batch_generate_images"}

\* toolExists(name)
toolExists(toolName) == toolName \in RegisteredTools

\* executeTool parses the arguments with the tool's zodSchema before it
\* calls tool.execute; a rejected parse is thrown as a plain Error
ExecuteToolAccepts(toolName, args) == SchemaOk(toolName, args)

ValidationError(toolName) ==
    [cls |-> "Error", message |-> "Invalid arguments", code |-> "undefined",
     statusCode |-> "undefined"]

(* --------------------------- tool modules ------------------------------ *)

\* backend calls one execute makes
BackendCalls(toolName) ==
    IF toolName = "batch_generate_images" THEN BatchItems ELSE 1

\* the status an execute has pushed when it first awaits the backend
FirstStatus(toolName) ==
    IF toolName = "generate_text"
    THEN ProcessingTextStatus
    ELSE GeneratingImageStatus(1, BatchItems)

\* the status an execute pushes right before it returns
FinalStatus(toolName) ==
    IF toolName = "generate_text" THEN TextGeneratedStatus ELSE AllImagesStatus

\* args.items[k - 1].prompt of a batch, args.prompt of another tool
RequestPrompt(toolName, k) ==
    IF toolName = "batch_generate_images" THEN "item " \o Digit(k) ELSE "hi"

\* a results array that takes the new result at its front
PushResultFront(items, k, backendResult) ==
    <<[index |-> k, prompt |-> RequestPrompt("batch_generate_images", k),
       imageUrl |-> backendResult]>> \o items

\* results.push({ index: i + 1, prompt: item.prompt, imageUrl: ... })
PushResult(items, k, backendResult) ==
    Append(items, [index |-> k,
                   prompt |-> RequestPrompt("batch_generate_images", k),
                   imageUrl |-> backendResult])

\* results.forEach((result) => { output += ... })
RECURSIVE ResultLines(_)
ResultLines(items) ==
    IF items = <<>> THEN <<>>
    ELSE <<"Image ", Digit(Head(items).index), "Prompt: ", Head(items).prompt,
           "URL: ", Head(items).imageUrl>> \o ResultLines(Tail(items))

\* the text an execute returns, as the parts of its template
ToolResult(toolName, backendResult, items) ==
    IF toolName = "generate_text"
    THEN <<"Text Generated Successfully!", backendResult>>
    ELSE <<"Batch Image Generation Complete!", "Total Images: ",
           Digit(Len(items))>> \o ResultLines(items)

\* catch (error) of an execute: the status it pushes ...
ToolErrorStatus(cause) ==
    ErrorPrefix \o (IF cause.cls \in {"GeminiAPIError", "Error"}
                    THEN CharsOf(cause.message)
                    ELSE <<"U","n","k","n","o","w","n"," ","e","r","r","o","r">>)

\* ... and the GeminiAPIError it throws, built from the message alone
ToolThrows(toolName, cause) ==
    [cls |-> "GeminiAPIError",
     message |-> (IF toolName = "generate_text"
                  THEN "Text generation failed: "
                  ELSE "Batch image generation failed: ")
                 \o (IF cause.cls \in {"GeminiAPIError", "Error"}
                     THEN cause.message ELSE "Unknown error"),
     code |-> "undefined", statusCode |-> "undefined"]

\* nothing was thrown
NoError ==
    [cls |-> "none", message |-> "", code |-> "undefined",
     statusCode |-> "undefined"]

(* ----------------------- handler: the responses ------------------------ *)

\* a response that keeps only the first part of the result
SuccessResponseTruncated(result) ==
    [text |-> SubSeq(result, 1, 1), isError |-> FALSE]

\* return { content: [{ type: "text", text: result }], isError: false }
SuccessResponse(result) == [text |-> result, isError |-> FALSE]

\* error instanceof GeminiAPIError
InstanceOfGeminiAPIError(error) == error.cls = "GeminiAPIError"

\* error instanceof Error: Error itself, the built-in TypeError, and the two
\* classes of constants.ts, which extend Error
InstanceOfError(error) ==
    error.cls \in {"Error", "TypeError", "GeminiAPIError", "MediaProcessingError"}

\* an errorMessage that keeps the message of a GeminiAPIError only
ErrorMessageWithoutCode(error) ==
    IF InstanceOfError(error)
    THEN <<error.message>>
    ELSE <<"Unknown error occurred">>

\* the errorMessage of the catch block
ErrorMessage(error) ==
    IF InstanceOfGeminiAPIError(error)
    THEN <<error.message, " (", error.code, ")">>
    ELSE IF InstanceOfError(error)
         THEN <<error.message>>
         ELSE <<"Unknown error occurred">>

\* an error response that is not tagged as one
ErrorResponseUntagged(toolName, error) ==
    [text |-> <<"Error executing ", toolName, ": ">> \o ErrorMessage(error),
     isError |-> FALSE]

\* return { content: [{ type: "text", text: `Error executing ...` }], isError: true }
ErrorResponse(toolName, error) ==
    [text |-> <<"Error executing ", toolName, ": ">> \o ErrorMessage(error),
     isError |-> TRUE]

\* throw new Error(`Unknown tool: ${request.params.name}`)
UnknownToolError(toolName) == <<"Unknown tool: ", toolName>>

(* ----------------------- progress notifications ------------------------ *)

\* params.total is left out
NoTotal == -1

\* sendProgressNotification: nothing is sent for a falsy token
sendProgressNotification(log, progressToken, progress, total, message) ==
    IF ~Truthy(progressToken)
    THEN log
    ELSE Append(log, [progressToken |-> progressToken, progress |-> progress,
                      total |-> total, message |-> message])

\* startProgressUpdates: the first notification, `Starting ${operationName}`
StartNotification(log, operationName, progressToken) ==
    IF Truthy(progressToken)
    THEN sendProgressNotification(log, progressToken, 0, NoTotal,
            [phrase |-> "Starting", op |-> operationName, status |-> <<>>])
    ELSE log

\* the setInterval callback: the notification of one interval
IntervalNotification(log, operationName, progressToken, progress, messageIndex, output) ==
    sendProgressNotification(log, progressToken, progress + 1, NoTotal,
        [phrase |-> progressMessages[(messageIndex % Len(progressMessages)) + 1],
         op |-> operationName,
         status |-> OutputPreview(output)])

\* a stop that sends its notification without looking at the token
StopNotificationUnguarded(log, operationName, progressToken, success) ==
    Append(log, [progressToken |-> progressToken, progress |-> 100,
                 total |-> 100,
                 message |-> [phrase |-> IF success THEN "completed successfully!"
                                         ELSE "failed",
                              op |-> operationName, status |-> <<>>]])

\* stopProgressUpdates: the last notification
StopNotification(log, operationName, progressToken, success) ==
    IF Truthy(progressToken)
    THEN sendProgressNotification(log, progressToken, 100, 100,
            [phrase |-> IF success THEN "completed successfully!" ELSE "failed",
             op |-> operationName, status |-> <<>>])
    ELSE log

\* a clearInterval that leaves the timer in place
clearIntervalKeeps(t) == t

\* clearInterval(interval)
clearInterval(t) == "cleared"

(* ------------------------------- state --------------------------------- *)

VARIABLES
    \* index.ts, module level
    isProcessing,          \* let isProcessing = false
    currentOperationName,  \* let currentOperationName = ""
    latestOutput,          \* let latestOutput = "" (characters)
    \* per invocation of the CallToolRequestSchema handler
    pc,                    \* "idle", "executing", "returned" or "raised"
    toolName,              \* request.params.name
    progressToken,         \* request.params._meta?.progressToken
    interval,              \* the setInterval timer: "none", "armed", "due", "cleared"
    progress,              \* let progress = 0 of startProgressUpdates
    messageIndex,          \* let messageIndex = 0 of startProgressUpdates
    notifications,         \* the progress notifications sent for the invocation
    responses,             \* the CallToolResults the handler returned
    raised,                \* the message of the Error the handler threw
    \* bookkeeping about an invocation
    expiries,              \* timer expiries so far, over all invocations
    executeCalls,          \* calls of tool.execute
    backendDone,           \* backend calls of execute that have returned
    thrown,                \* what executeTool rejected with
    result,                \* what executeTool resolved to
    ownStatus,             \* the last status the invocation's onProgress got
    stopCalls,             \* calls of stopProgressUpdates
    dueAtStop,             \* the timer callback was due when stop was called
    callbackRuns,          \* runs of the setInterval callback
    backendFault,          \* what the Gemini client threw to execute
    requests,              \* requests the Gemini client sent to the API
    results,               \* const results = [] of a batch execute
    sent,                  \* the prompts of the requests, in the order sent
    \* demo server (test-runner.js)
    demoRequest,           \* the last tools/call request
    demoResponse,          \* what handleRequest returned for it
    demoExecuteCalls,      \* calls of tool.execute it made
    demoHandled,           \* requests handled so far
    demoTools,             \* inputSchema.required of the last tools/list
    \* the catch block of the handler, on its own
    caught,                \* the value of `catch (error)`
    classified,            \* times errorMessage was computed for it
    errorMessage,          \* the errorMessage computed first
    errorMessageAgain,     \* the errorMessage computed second
    \* the registry of the demo server (test-runner.js), on its own
    toolRegistry,          \* const toolRegistry = []
    registerCalls,         \* the tools registerTool was called with, in order
    serving,               \* new SimpleMCPServer() has run
    found,                 \* what tools/call last looked up, and what it got
    \* the media tools (tools/media-management.ts and the generation tools)
    mediaStorage,          \* const mediaStorage = new Map(), in insertion order
    nextMediaId,           \* media ids handed out so far
    generated,             \* media a generation tool returned with a Media ID
    deleted,               \* ids a confirmed delete_media was asked to delete
    listing,               \* what list_generated_media last reported
    lastTool,              \* the media tool that ran last
    lastDelete,            \* the last delete_media call and its reply
    \* schema.parse on a documented example, on its own
    docTool,               \* the tool whose zodSchema parses
    docArgs,               \* the arguments object it is given
    parsed                 \* "none", then "accepted" or "rejected"

mainVars == <<isProcessing, currentOperationName, latestOutput, pc, toolName,
              progressToken, interval, progress, messageIndex, notifications,
              responses, raised, expiries, executeCalls, backendDone, thrown,
              result, ownStatus, stopCalls, dueAtStop, callbackRuns,
              backendFault, requests, results, sent>>

demoVars == <<demoRequest, demoResponse, demoExecuteCalls, demoHandled,
              demoTools>>

classifyVars == <<caught, classified, errorMessage, errorMessageAgain>>

\* everything that is not state of index.ts
registryVars == <<toolRegistry, registerCalls, serving, found>>

mediaVars == <<mediaStorage, nextMediaId, generated, deleted, listing, lastTool,
               lastDelete>>

readmeVars == <<docTool, docArgs, parsed>>

\* the variables of the specifications of single functions
pureVars == <<readmeVars>>

sideVars == <<demoVars, classifyVars, registryVars, mediaVars, pureVars>>

vars == <<mainVars, sideVars>>

NoRequest == [name |-> "", args |-> [prompt |-> Absent, model |-> "absent", items |-> Absent]]

\* tools/list has not been asked for
NoTools == [listed |-> FALSE, required |-> <<>>]

NoDemoResponse == [kind |-> "none", text |-> <<>>, isError |-> "absent"]

\* delete_media has not run
NoDelete == [mediaId |-> Absent, confirmDelete |-> FALSE, force |-> FALSE,
             reply |-> ""]

\* list_generated_media has not run
NoListing == [limit |-> Absent, offset |-> Absent, total |-> 0, items |-> <<>>]

\* no lookup yet
NoLookup == [name |-> "", tool |-> [name |-> "", description |-> ""]]

\* the servers before the first request
InitServers ==
    /\ isProcessing = FALSE
    /\ currentOperationName = ""
    /\ latestOutput = <<>>
    /\ pc = [i \in Invocations |-> "idle"]
    /\ toolName = [i \in Invocations |-> ""]
    /\ progressToken = [i \in Invocations |-> "undefined"]
    /\ interval = [i \in Invocations |-> "none"]
    /\ progress = [i \in Invocations |-> 0]
    /\ messageIndex = [i \in Invocations |-> 0]
    /\ notifications = [i \in Invocations |-> <<>>]
    /\ responses = [i \in Invocations |-> <<>>]
    /\ raised = [i \in Invocations |-> <<>>]
    /\ expiries = 0
    /\ executeCalls = [i \in Invocations |-> 0]
    /\ backendDone = [i \in Invocations |-> 0]
    /\ thrown = [i \in Invocations |-> NoError]
    /\ result = [i \in Invocations |-> <<>>]
    /\ ownStatus = [i \in Invocations |-> <<>>]
    /\ stopCalls = [i \in Invocations |-> 0]
    /\ dueAtStop = [i \in Invocations |-> FALSE]
    /\ callbackRuns = [i \in Invocations |-> 0]
    /\ backendFault = [i \in Invocations |-> NoError]
    /\ requests = [i \in Invocations |-> 0]
    /\ results = [i \in Invocations |-> <<>>]
    /\ sent = [i \in Invocations |-> <<>>]
    /\ demoRequest = NoRequest
    /\ demoResponse = NoDemoResponse
    /\ demoExecuteCalls = 0
    /\ demoHandled = 0
    /\ demoTools = NoTools
    /\ toolRegistry = <<>>
    /\ registerCalls = <<>>
    /\ serving = FALSE
    /\ found = NoLookup
    /\ mediaStorage = <<>>
    /\ nextMediaId = 0
    /\ generated = {}
    /\ deleted = {}
    /\ listing = NoListing
    /\ lastTool = "none"
    /\ lastDelete = NoDelete

\* nothing has been thrown into the catch block
ClassifyIdle ==
    /\ caught = NoError
    /\ classified = 0
    /\ errorMessage = <<>>
    /\ errorMessageAgain = <<>>

\* no arguments object is being parsed
ReadmeIdle ==
    /\ docTool = ""
    /\ docArgs = <<>>
    /\ parsed = "none"

Init == InitServers /\ ClassifyIdle /\ ReadmeIdle

(* ------------------- CallToolRequestSchema handler --------------------- *)

\* a handler that calls startProgressUpdates before it looks the name up
DispatchUnknownAfterStart(i) ==
    /\ pc[i] = "idle"
    /\ \E name \in ToolNames, token \in Tokens :
          /\ ~toolExists(name)
          /\ pc' = [pc EXCEPT ![i] = "raised"]
          /\ toolName' = [toolName EXCEPT ![i] = name]
          /\ raised' = [raised EXCEPT ![i] = UnknownToolError(name)]
          /\ isProcessing' = TRUE
          /\ currentOperationName' = name
          /\ latestOutput' = <<>>
          /\ progressToken' = [progressToken EXCEPT ![i] = token]
          /\ interval' = [interval EXCEPT ![i] = "armed"]
          /\ notifications' = [notifications EXCEPT
                                  ![i] = StartNotification(notifications[i], name, token)]
          /\ UNCHANGED <<progress, messageIndex, responses, expiries,
                         executeCalls, backendDone, thrown, result, ownStatus,
                         stopCalls, dueAtStop, callbackRuns, backendFault,
                         requests, results, sent>>
          /\ UNCHANGED sideVars

\* else { throw new Error(`Unknown tool: ...`) }: the token is not read and
\* nothing else happens
DispatchUnknown(i) ==
    /\ pc[i] = "idle"
    /\ \E name \in ToolNames :
          /\ ~toolExists(name)
          /\ pc' = [pc EXCEPT ![i] = "raised"]
          /\ toolName' = [toolName EXCEPT ![i] = name]
          /\ raised' = [raised EXCEPT ![i] = UnknownToolError(name)]
          /\ UNCHANGED <<isProcessing, currentOperationName, latestOutput, interval,
                         progressToken,
                         progress, messageIndex, notifications, responses, expiries,
                         executeCalls, backendDone, thrown, result, ownStatus,
                         stopCalls, dueAtStop, callbackRuns, backendFault,
                         requests, results, sent>>
          /\ UNCHANGED sideVars

\* A registered tool whose arguments executeTool rejects: the channel is
\* started, executeTool rejects before tool.execute is called, and the catch
\* block stops the channel and returns the error response, all in one turn
\* of the event loop (the timer is created and cleared without firing).
DispatchRejected(i) ==
    /\ pc[i] = "idle"
    /\ \E name \in ToolNames, token \in Tokens, args \in ArgSets :
          /\ toolExists(name)
          /\ ~ExecuteToolAccepts(name, args)
          /\ LET error == ValidationError(name)
                 started == StartNotification(notifications[i], name, token)
                 \* stopProgressUpdates reads currentOperationName, just set to name
                 stopped == StopNotification(started, name, token, FALSE)
             IN  /\ notifications' = [notifications EXCEPT ![i] = stopped]
                 /\ thrown' = [thrown EXCEPT ![i] = error]
                 /\ responses' = [responses EXCEPT ![i] = <<ErrorResponse(name, error)>>]
          /\ isProcessing' = FALSE
          /\ currentOperationName' = ""
          /\ latestOutput' = <<>>
          /\ pc' = [pc EXCEPT ![i] = "returned"]
          /\ toolName' = [toolName EXCEPT ![i] = name]
          /\ progressToken' = [progressToken EXCEPT ![i] = token]
          /\ interval' = [interval EXCEPT ![i] = clearInterval("armed")]
          /\ stopCalls' = [stopCalls EXCEPT ![i] = 1]
          /\ UNCHANGED <<progress, messageIndex, raised, expiries, executeCalls,
                         backendDone, result, ownStatus, dueAtStop,
                         callbackRuns, backendFault, requests, results, sent>>
          /\ UNCHANGED sideVars

\* A registered tool with accepted arguments: startProgressUpdates, then
\* execute runs up to its first await of the backend.
DispatchAccepted(i) ==
    /\ pc[i] = "idle"
    /\ \E name \in ToolNames, token \in Tokens, args \in ArgSets :
          /\ toolExists(name)
          /\ ExecuteToolAccepts(name, args)
          /\ isProcessing' = TRUE
          /\ currentOperationName' = name
          /\ latestOutput' = FirstStatus(name)
          /\ pc' = [pc EXCEPT ![i] = "executing"]
          /\ toolName' = [toolName EXCEPT ![i] = name]
          /\ progressToken' = [progressToken EXCEPT ![i] = token]
          /\ interval' = [interval EXCEPT ![i] = "armed"]
          /\ notifications' = [notifications EXCEPT
                                  ![i] = StartNotification(notifications[i], name, token)]
          /\ executeCalls' = [executeCalls EXCEPT ![i] = executeCalls[i] + 1]
          /\ requests' = [requests EXCEPT ![i] = 1]
          /\ results' = [results EXCEPT ![i] = <<>>]
          /\ sent' = [sent EXCEPT ![i] = <<RequestPrompt(name, 1)>>]
          /\ ownStatus' = [ownStatus EXCEPT ![i] = FirstStatus(name)]
          /\ UNCHANGED <<progress, messageIndex, responses, raised, expiries,
                         backendDone, thrown, result, stopCalls, dueAtStop,
                         callbackRuns, backendFault>>
          /\ UNCHANGED sideVars

\* batch_generate_images: one backend call returns and the loop pushes the
\* status of the next item before it awaits again
BackendItemDone(i) ==
    /\ pc[i] = "executing"
    /\ backendDone[i] + 1 < BackendCalls(toolName[i])
    /\ LET status == GeneratingImageStatus(backendDone[i] + 2, BatchItems)
       IN  /\ latestOutput' = status
           /\ ownStatus' = [ownStatus EXCEPT ![i] = status]
    /\ \E r \in BackendResults :
          results' = [results EXCEPT
                         ![i] = PushResult(results[i], backendDone[i] + 1, r)]
    /\ sent' = [sent EXCEPT
                   ![i] = Append(sent[i],
                                 RequestPrompt(toolName[i], backendDone[i] + 2))]
    /\ backendDone' = [backendDone EXCEPT ![i] = backendDone[i] + 1]
    /\ requests' = [requests EXCEPT ![i] = requests[i] + 1]
    /\ UNCHANGED <<isProcessing, currentOperationName, pc, toolName,
                   progressToken, interval, progress, messageIndex,
                   notifications, responses, raised, expiries, executeCalls,
                   thrown, result, stopCalls, dueAtStop, callbackRuns,
                   backendFault>>
    /\ UNCHANGED sideVars

\* a handler that takes the request up again after a fault
SettleAndRedispatch(i, success, response) ==
    /\ isProcessing' = FALSE
    /\ currentOperationName' = ""
    /\ interval' = [interval EXCEPT ![i] = clearInterval(interval[i])]
    /\ notifications' = [notifications EXCEPT
          ![i] = StopNotification(notifications[i], currentOperationName,
                                  progressToken[i], success)]
    /\ stopCalls' = [stopCalls EXCEPT ![i] = stopCalls[i] + 1]
    /\ dueAtStop' = [dueAtStop EXCEPT ![i] = (interval[i] = "due")]
    /\ responses' = [responses EXCEPT ![i] = Append(responses[i], response)]
    /\ pc' = [pc EXCEPT ![i] = IF success THEN "returned" ELSE "idle"]

\* stopProgressUpdates together with what the handler does after it
Settle(i, success, response) ==
    /\ isProcessing' = FALSE
    /\ currentOperationName' = ""
    /\ interval' = [interval EXCEPT ![i] = clearInterval(interval[i])]
    /\ notifications' = [notifications EXCEPT
          ![i] = StopNotification(notifications[i], currentOperationName,
                                  progressToken[i], success)]
    /\ stopCalls' = [stopCalls EXCEPT ![i] = stopCalls[i] + 1]
    /\ dueAtStop' = [dueAtStop EXCEPT ![i] = (interval[i] = "due")]
    /\ responses' = [responses EXCEPT ![i] = Append(responses[i], response)]
    /\ pc' = [pc EXCEPT ![i] = "returned"]

\* the last backend call returns: execute pushes its final status and
\* returns its text; the handler stops the channel and returns the text
SettleSuccess(i, backendResult) ==
    /\ pc[i] = "executing"
    /\ backendDone[i] + 1 = BackendCalls(toolName[i])
    /\ LET items == IF toolName[i] = "batch_generate_images"
                    THEN PushResult(results[i], backendDone[i] + 1, backendResult)
                    ELSE results[i]
           text == ToolResult(toolName[i], backendResult, items)
       IN  /\ results' = [results EXCEPT ![i] = items]
           /\ result' = [result EXCEPT ![i] = text]
           /\ Settle(i, TRUE, SuccessResponse(text))
    /\ latestOutput' = FinalStatus(toolName[i])
    /\ ownStatus' = [ownStatus EXCEPT ![i] = FinalStatus(toolName[i])]
    /\ backendDone' = [backendDone EXCEPT ![i] = backendDone[i] + 1]
    /\ UNCHANGED <<toolName, progressToken, progress, messageIndex, raised,
                   expiries, executeCalls, thrown, callbackRuns,
                   backendFault, requests, sent>>
    /\ UNCHANGED sideVars

\* a backend call fails: execute pushes the error status and throws; the
\* handler's catch block stops the channel and returns the error response
SettleFault(i, cause) ==
    /\ pc[i] = "executing"
    /\ cause \in BackendFaults(toolName[i])
    /\ LET error == ToolThrows(toolName[i], cause)
       IN  /\ thrown' = [thrown EXCEPT ![i] = error]
           /\ Settle(i, FALSE, ErrorResponse(toolName[i], error))
    /\ latestOutput' = ToolErrorStatus(cause)
    /\ ownStatus' = [ownStatus EXCEPT ![i] = ToolErrorStatus(cause)]
    /\ backendFault' = [backendFault EXCEPT ![i] = cause]
    /\ UNCHANGED <<toolName, progressToken, progress, messageIndex, raised,
                   expiries, executeCalls, backendDone, result,
                   callbackRuns, requests, results, sent>>
    /\ UNCHANGED sideVars

(* --------------------------- interval timer ---------------------------- *)

\* PROTOCOL.KEEPALIVE_INTERVAL elapses: the callback becomes due (in a run
\* of at most max intervals)
Expire(i, max) ==
    /\ interval[i] = "armed"
    /\ expiries < max
    /\ interval' = [interval EXCEPT ![i] = "due"]
    /\ expiries' = expiries + 1
    /\ UNCHANGED <<isProcessing, currentOperationName, latestOutput, pc,
                   toolName, progressToken, progress, messageIndex,
                   notifications, responses, raised, executeCalls, backendDone,
                   thrown, result, ownStatus, stopCalls, dueAtStop,
                   callbackRuns, backendFault, requests, results, sent>>
    /\ UNCHANGED sideVars

TimerExpire(i) == Expire(i, MaxTicks)

\* the setInterval callback runs
TimerFire(i) ==
    /\ interval[i] = "due"
    /\ callbackRuns' = [callbackRuns EXCEPT ![i] = callbackRuns[i] + 1]
    /\ IF isProcessing /\ Truthy(progressToken[i])
       THEN /\ progress' = [progress EXCEPT ![i] = progress[i] + 1]
            /\ notifications' = [notifications EXCEPT
                  ![i] = IntervalNotification(notifications[i], toolName[i],
                            progressToken[i], progress[i], messageIndex[i],
                            latestOutput)]
            /\ messageIndex' = [messageIndex EXCEPT ![i] = messageIndex[i] + 1]
            /\ interval' = [interval EXCEPT ![i] = "armed"]
       ELSE /\ interval' = [interval EXCEPT
                  ![i] = IF ~isProcessing THEN clearInterval("armed") ELSE "armed"]
            /\ UNCHANGED <<progress, notifications, messageIndex>>
    /\ UNCHANGED <<isProcessing, currentOperationName, latestOutput, pc,
                   toolName, progressToken, responses, raised, expiries,
                   executeCalls, backendDone, thrown, result, ownStatus,
                   stopCalls, dueAtStop, backendFault, requests, results, sent>>
    /\ UNCHANGED sideVars

Next ==
    \/ \E i \in Invocations : DispatchUnknown(i)
    \/ \E i \in Invocations : DispatchRejected(i)
    \/ \E i \in Invocations : DispatchAccepted(i)
    \/ \E i \in Invocations : BackendItemDone(i)
    \/ \E i \in Invocations, r \in BackendResults : SettleSuccess(i, r)
    \/ \E i \in Invocations, c \in {ApiErrorFault, TextFailedFault} :
          SettleFault(i, c)
    \/ \E i \in Invocations : TimerExpire(i)
    \/ \E i \in Invocations : TimerFire(i)

Spec == Init /\ [][Next]_vars

\* one invocation on its own, whose operation runs for many intervals
NextLongRun ==
    \/ DispatchAccepted("A")
    \/ BackendItemDone("A")
    \/ \E r \in BackendResults : SettleSuccess("A", r)
    \/ \E c \in {ApiErrorFault, TextFailedFault} : SettleFault("A", c)
    \/ Expire("A", MaxLongTicks)
    \/ TimerFire("A")

SpecLongRun == Init /\ [][NextLongRun]_vars

(* -------------------- demo server (test-runner.js) --------------------- *)

\* the tools of toolRegistry that are modelled, by name
DemoRegistry == {"generate_image_nano_banana", "generate_text",
                 "batch_generate_images", "list_generated_media"}

\* tool.schema of a demo tool: for each property the `default` it declares
\* ("undefined" when it declares none, "num:0" the number 0)
DemoSchema(name) ==
    CASE name = "generate_image_nano_banana" ->
            ("prompt" :> "undefined") @@ ("style" :> "str:natural")
            @@ ("aspectRatio" :> "str:1:1") @@ ("quality" :> "str:standard")
      [] name = "generate_text" ->
            ("prompt" :> "undefined") @@ ("model" :> "str:gemini-2.5-flash")
            @@ ("temperature" :> "num:0.7") @@ ("maxTokens" :> "num:1000")
      [] name = "batch_generate_images" ->
            ("items" :> "undefined") @@ ("model" :> "str:nano-banana")
            @@ ("style" :> "str:natural")
      [] OTHER ->
            ("limit" :> "num:10") @@ ("offset" :> "num:0")

\* Object.keys(tool.schema).filter(key => !tool.schema[key].default)
Required(schema) == {key \in DOMAIN schema : ~Truthy(schema[key])}

DemoToolNames == DemoRegistry \cup {"missing_tool"}

\* the arguments break a constraint the tool's `schema` declares: a property
\* without a default is missing, a string is shorter than minLength, an
\* array is outside minItems..maxItems, a value is outside its enum
DemoSchemaViolated(name, args) ==
    CASE name = "generate_image_nano_banana" ->
            \/ args.prompt = Absent
            \/ args.prompt < 1
      [] name = "generate_text" ->
            \/ args.prompt = Absent
            \/ args.prompt < 1
            \/ args.model \notin {"absent", "gemini-2.5-flash", "gemini-2.0-flash-exp"}
      [] name = "batch_generate_images" ->
            \/ args.items = Absent
            \/ args.items < 1
            \/ args.items > 10
            \/ args.model \notin {"absent", "nano-banana", "imagen3", "imagen4"}
      [] OTHER -> FALSE

\* tool.execute(args) of the demo tools: generate_text reads
\* args.prompt.substring and batch_generate_images args.items.map, which
\* throw a TypeError on a missing property; nothing else is looked at
DemoExecute(name, args) ==
    CASE name = "generate_text" /\ args.prompt = Absent ->
            [threw |-> TRUE, value |-> <<"Cannot read properties of undefined">>]
      [] name = "batch_generate_images" /\ args.items = Absent ->
            [threw |-> TRUE, value |-> <<"Cannot read properties of undefined">>]
      [] OTHER ->
            [threw |-> FALSE, value |-> <<name, "Demo response">>]

\* case "tools/call" of SimpleMCPServer.handleRequest
DemoCall(name, args) ==
    /\ demoHandled < MaxDemoRequests
    /\ demoHandled' = demoHandled + 1
    /\ demoRequest' = [name |-> name, args |-> args]
    /\ IF name \notin DemoRegistry
       THEN /\ demoResponse' = [kind |-> "error",
                                text |-> <<"Unknown tool: ", name>>,
                                isError |-> "absent"]
            /\ demoExecuteCalls' = 0
       ELSE LET outcome == DemoExecute(name, args)
            IN  /\ demoExecuteCalls' = 1
                /\ demoResponse' =
                      IF outcome.threw
                      THEN [kind |-> "result",
                            text |-> <<"Error: ">> \o outcome.value,
                            isError |-> "true"]
                      ELSE [kind |-> "result", text |-> outcome.value,
                            isError |-> "false"]
    /\ UNCHANGED demoTools
    /\ UNCHANGED <<mainVars, classifyVars, registryVars, mediaVars, pureVars>>

\* case "tools/list" of SimpleMCPServer.handleRequest
DemoList ==
    /\ demoHandled < MaxDemoRequests
    /\ demoHandled' = demoHandled + 1
    /\ demoTools' = [listed |-> TRUE,
                     required |-> [name \in DemoRegistry |->
                                      Required(DemoSchema(name))]]
    /\ UNCHANGED <<demoRequest, demoResponse, demoExecuteCalls>>
    /\ UNCHANGED <<mainVars, classifyVars, registryVars, mediaVars, pureVars>>

NextDemo ==
    \/ \E name \in DemoToolNames, args \in ArgSets : DemoCall(name, args)
    \/ DemoList

SpecDemo == Init /\ [][NextDemo]_vars

(* --------------- the registry of the demo server (test-runner.js) ------ *)

\* names and descriptions of the tools registerTool is called with; two
\* tools of one name differ in their description
RegistryNames == {"generate_text", "list_generated_media"}

ToolDescriptions == {"first definition", "revised definition"}

Tools == [name : RegistryNames, description : ToolDescriptions]

\* this.tools.find(t => t.name === params.name) found nothing
Undefined == [name |-> "", description |-> "undefined"]

\* function registerTool(tool) { toolRegistry.push(tool); ... }
registerTool(registry, tool) == Append(registry, tool)

\* this.tools.find(t => t.name === params.name): the first match
Find(registry, name) ==
    IF \E k \in 1..Len(registry) : registry[k].name = name
    THEN registry[CHOOSE k \in 1..Len(registry) :
                      /\ registry[k].name = name
                      /\ \A h \in 1..(k - 1) : registry[h].name # name]
    ELSE Undefined

\* tools/list: this.tools.map(tool => ({ name: tool.name, ... }))
ToolsList(registry) == [k \in 1..Len(registry) |-> registry[k].name]

\* a call of registerTool while the module is loaded
RegisterCall ==
    /\ ~serving
    /\ Len(registerCalls) < MaxRegistrations
    /\ \E tool \in Tools :
          /\ toolRegistry' = registerTool(toolRegistry, tool)
          /\ registerCalls' = Append(registerCalls, tool)
    /\ UNCHANGED <<serving, found, mainVars, demoVars, classifyVars, mediaVars,
                   pureVars>>

\* const server = new SimpleMCPServer(): this.tools = toolRegistry
StartServer ==
    /\ ~serving
    /\ serving' = TRUE
    /\ UNCHANGED <<toolRegistry, registerCalls, found, mainVars, demoVars,
                   classifyVars, mediaVars, pureVars>>

\* case "tools/call": the lookup of params.name
LookupCall ==
    /\ serving
    /\ \E name \in RegistryNames :
          found' = [name |-> name, tool |-> Find(toolRegistry, name)]
    /\ UNCHANGED <<toolRegistry, registerCalls, serving, mainVars, demoVars,
                   classifyVars, mediaVars, pureVars>>

NextRegistry == RegisterCall \/ StartServer \/ LookupCall

SpecRegistry == Init /\ [][NextRegistry]_vars

(* ----------------------------- media tools ---------------------------- *)

MediaTypes == {"image", "video"}

\* filteredMedia.slice(start, end) with start = args.offset || 0 and
\* end = start + (args.limit || 10), as the ids of the items
ListPage(storage, limit, offset) ==
    LET start == IF offset = Absent THEN 0 ELSE offset
        size == IF limit = Absent \/ limit = 0 THEN DefaultLimit ELSE limit
        end == IF start + size < Len(storage) THEN start + size ELSE Len(storage)
    IN  [k \in 1..(IF end > start THEN end - start ELSE 0) |-> storage[start + k].id]

\* what is left alone by a media tool
UnchangedByMedia ==
    UNCHANGED <<mainVars, demoVars, classifyVars, registryVars, pureVars>>

\* generate_image_* / generate_video_*: the client makes up a media id and
\* a URL for it, execute returns both in its text; mediaStorage is not
\* touched
GenerateMedia ==
    /\ nextMediaId < MaxMedia
    /\ nextMediaId' = nextMediaId + 1
    /\ \E type \in MediaTypes :
          generated' = generated \cup {[id |-> nextMediaId + 1, type |-> type]}
    /\ lastTool' = "generate"
    /\ UNCHANGED <<mediaStorage, deleted, listing, lastDelete>>
    /\ UnchangedByMedia

\* upload_reference_image: mediaStorage.set(mediaId, mediaItem)
UploadReference ==
    /\ nextMediaId < MaxMedia
    /\ nextMediaId' = nextMediaId + 1
    /\ mediaStorage' = Append(mediaStorage,
                              [id |-> nextMediaId + 1, type |-> "image"])
    /\ lastTool' = "upload"
    /\ UNCHANGED <<generated, deleted, listing, lastDelete>>
    /\ UnchangedByMedia

\* list_generated_media
ListMedia ==
    /\ \E limit \in {Absent, 1}, offset \in {Absent, 1} :
          listing' = [limit |-> limit, offset |-> offset,
                      total |-> Len(mediaStorage),
                      items |-> ListPage(mediaStorage, limit, offset)]
    /\ lastTool' = "list"
    /\ UNCHANGED <<mediaStorage, nextMediaId, generated, deleted, lastDelete>>
    /\ UnchangedByMedia

\* delete_media: nothing without confirmDelete or force; otherwise the
\* item of args.mediaId when `if (args.mediaId)` passes, and every item
\* when it does not
DeleteMedia ==
    /\ \E mediaId \in (1..nextMediaId) \cup {EmptyId, Absent},
          confirmDelete \in BOOLEAN, force \in BOOLEAN :
          IF ~confirmDelete /\ ~force
          THEN /\ lastDelete' = [mediaId |-> mediaId,
                                 confirmDelete |-> confirmDelete,
                                 force |-> force,
                                 reply |-> "Deletion Confirmation Required"]
               /\ UNCHANGED <<mediaStorage, deleted>>
          ELSE /\ lastDelete' = [mediaId |-> mediaId,
                                 confirmDelete |-> confirmDelete,
                                 force |-> force,
                                 reply |-> "Media Deletion Complete"]
               /\ IF mediaId \notin {Absent, EmptyId}
                  THEN /\ mediaStorage' = SelectSeq(mediaStorage,
                                                    LAMBDA m : m.id # mediaId)
                       /\ deleted' = deleted \cup {mediaId}
                  ELSE /\ mediaStorage' = <<>>
                       /\ deleted' = deleted \cup (1..nextMediaId)
    /\ lastTool' = "delete"
    /\ UNCHANGED <<nextMediaId, generated, listing>>
    /\ UnchangedByMedia

NextMedia == GenerateMedia \/ UploadReference \/ ListMedia \/ DeleteMedia

SpecMedia == Init /\ [][NextMedia]_vars

(* ------------- zod schemas and the examples of the README -------------- *)

\* JSON values of an arguments object.  A string carries its text and
\* whether it is a well-formed URL; a number its whole part and its tenths
\* (0.8 is Num(0, 8)); an array its length and whether each of its elements
\* passes the element schema.
Str(s) == [kind |-> "string", s |-> s, n |-> 0, tenths |-> 0, ok |-> FALSE]
Url(s) == [kind |-> "string", s |-> s, n |-> 0, tenths |-> 0, ok |-> TRUE]
Num(whole, tenths) ==
    [kind |-> "number", s |-> "", n |-> whole, tenths |-> tenths, ok |-> TRUE]
Bool(b) == [kind |-> "boolean", s |-> "", n |-> 0, tenths |-> 0, ok |-> b]
Arr(len, elementsOk) ==
    [kind |-> "array", s |-> "", n |-> len, tenths |-> 0, ok |-> elementsOk]

\* one property of a z.object: .optional() and .default() make it
\* optional, anything else is required
ZString(required, min, max) ==
    [required |-> required, kind |-> "string", enum |-> {}, min |-> min, max |-> max]
\* z.string() without a length limit
ZAnyString(required) ==
    [required |-> required, kind |-> "anyString", enum |-> {}, min |-> 0, max |-> 0]
ZUrl(required) ==
    [required |-> required, kind |-> "url", enum |-> {}, min |-> 0, max |-> 0]
ZEnum(required, values) ==
    [required |-> required, kind |-> "enum", enum |-> values, min |-> 0, max |-> 0]
\* z.number().min(min).max(max), and the same with .int()
ZNumber(required, min, max) ==
    [required |-> required, kind |-> "number", enum |-> {}, min |-> min, max |-> max]
ZInt(required, min, max) ==
    [required |-> required, kind |-> "int", enum |-> {}, min |-> min, max |-> max]
\* z.number().int().min(min), without a maximum
ZIntFrom(required, min) ==
    [required |-> required, kind |-> "intFrom", enum |-> {}, min |-> min, max |-> min]
ZBoolean(required) ==
    [required |-> required, kind |-> "boolean", enum |-> {}, min |-> 0, max |-> 0]
ZArray(required, min, max) ==
    [required |-> required, kind |-> "array", enum |-> {}, min |-> min, max |-> max]

\* a value passes the check of a property
ZAccepts(rule, v) ==
    CASE rule.kind = "string" ->
            v.kind = "string" /\ Len(v.s) >= rule.min /\ Len(v.s) <= rule.max
      [] rule.kind = "anyString" -> v.kind = "string"
      [] rule.kind = "url" -> v.kind = "string" /\ v.ok
      [] rule.kind = "enum" -> v.kind = "string" /\ v.s \in rule.enum
      [] rule.kind = "number" ->
            /\ v.kind = "number"
            /\ v.n >= rule.min
            /\ (v.n < rule.max \/ (v.n = rule.max /\ v.tenths = 0))
      [] rule.kind = "int" ->
            /\ v.kind = "number"
            /\ v.tenths = 0
            /\ v.n >= rule.min
            /\ v.n <= rule.max
      [] rule.kind = "intFrom" ->
            v.kind = "number" /\ v.tenths = 0 /\ v.n >= rule.min
      [] rule.kind = "boolean" -> v.kind = "boolean"
      [] rule.kind = "array" ->
            v.kind = "array" /\ v.n >= rule.min /\ v.n <= rule.max /\ v.ok

\* schema.parse(args) does not throw: every property of the schema is
\* either present and accepted, or absent and optional (keys the schema
\* does not know are stripped)
ZParses(schema, args) ==
    \A f \in DOMAIN schema :
        IF f \in DOMAIN args
        THEN ZAccepts(schema[f], args[f])
        ELSE ~schema[f].required

\* The schemas of constants.ts.  `seed`, an optional integer up to
\* 4294967295 that no example sets, is left out of the two schemas that
\* have it.
ImageStyles == {"natural", "artistic", "photorealistic", "cartoon", "anime"}

AspectRatios == {"1:1", "16:9", "4:3", "3:2", "2:3", "3:4", "9:16", "21:9"}

ImageGenerationSchema ==
    ("prompt" :> ZString(TRUE, 1, ImagePromptMax))
    @@ ("model" :> ZEnum(FALSE, {"nano-banana", "imagen3", "imagen4"}))
    @@ ("aspectRatio" :> ZEnum(FALSE, AspectRatios))
    @@ ("quality" :> ZEnum(FALSE, {"standard", "high"}))
    @@ ("style" :> ZEnum(FALSE, ImageStyles))

VideoGenerationSchema ==
    ("prompt" :> ZString(TRUE, 1, 2000))
    @@ ("duration" :> ZInt(FALSE, 4, 8))
    @@ ("resolution" :> ZEnum(FALSE, {"720p", "1080p"}))
    @@ ("fps" :> ZInt(FALSE, 24, 60))
    @@ ("style" :> ZEnum(FALSE, {"natural", "cinematic", "artistic", "animation"}))
    @@ ("aspectRatio" :> ZEnum(FALSE, {"16:9", "1:1", "9:16"}))
    @@ ("referenceImage" :> ZUrl(FALSE))

ImageToVideoSchema ==
    ("imageUrl" :> ZUrl(TRUE))
    @@ ("prompt" :> ZString(TRUE, 1, 1000))
    @@ ("duration" :> ZInt(FALSE, 4, 8))
    @@ ("resolution" :> ZEnum(FALSE, {"720p", "1080p"}))
    @@ ("motionPrompt" :> ZString(FALSE, 0, 500))
    @@ ("cameraMovement" :> ZEnum(FALSE, {"static", "pan", "zoom", "tilt", "tracking"}))

TextGenerationSchema ==
    ("prompt" :> ZString(TRUE, 1, TextPromptMax))
    @@ ("model" :> ZEnum(FALSE, {"gemini-2.5-flash", "gemini-2.0-flash-exp"}))
    @@ ("temperature" :> ZNumber(FALSE, 0, 2))
    @@ ("maxTokens" :> ZInt(FALSE, 1, 8192))
    @@ ("topP" :> ZNumber(FALSE, 0, 1))
    @@ ("topK" :> ZInt(FALSE, 1, 100))

ImageAnalysisSchema ==
    ("imageUrl" :> ZUrl(TRUE))
    @@ ("prompt" :> ZString(FALSE, 0, 1000))
    @@ ("analysisType" :> ZEnum(FALSE, {"describe", "analyze", "ocr", "vision"}))

MediaManagementSchema ==
    ("action" :> ZEnum(TRUE, {"list", "download", "delete", "upload"}))
    @@ ("mediaId" :> ZAnyString(FALSE))
    @@ ("limit" :> ZInt(FALSE, 1, 100))
    @@ ("offset" :> ZIntFrom(FALSE, 0))

\* the tools the README documents, which are the tools the modules register
DocumentedTools ==
    {"generate_image_nano_banana", "generate_image_imagen",
     "batch_generate_images", "edit_image_with_prompt",
     "generate_video_veo", "image_to_video", "batch_generate_videos",
     "upload_reference_image", "list_generated_media", "download_media",
     "delete_media", "generate_text", "analyze_image", "batch_analyze_images"}

\* the zodSchema of each tool; X.extend({...}) is the extension in front of X
zodSchema(tool) ==
    CASE tool \in {"generate_image_nano_banana", "generate_image_imagen"} ->
            ImageGenerationSchema
      [] tool = "batch_generate_images" ->
            ("items" :> ZArray(TRUE, 1, 10)) @@ ImageGenerationSchema
      [] tool = "edit_image_with_prompt" ->
            ("imageUrl" :> ZUrl(TRUE))
            @@ ("editType" :> ZEnum(FALSE, {"modify", "enhance", "transform",
                                            "style_transfer"}))
            @@ ImageGenerationSchema
      [] tool = "generate_video_veo" -> VideoGenerationSchema
      [] tool = "image_to_video" -> ImageToVideoSchema
      [] tool = "batch_generate_videos" ->
            ("items" :> ZArray(TRUE, 1, 5)) @@ VideoGenerationSchema
      [] tool = "upload_reference_image" ->
            ("imageUrl" :> ZUrl(TRUE))
            @@ ("title" :> ZString(FALSE, 0, 200))
            @@ ("description" :> ZString(FALSE, 0, 500))
            @@ ("tags" :> ZArray(FALSE, 0, 10))
            @@ ("category" :> ZEnum(FALSE, {"portrait", "landscape", "object",
                                            "art", "photo", "other"}))
      [] tool \in {"list_generated_media", "download_media"} ->
            MediaManagementSchema
      [] tool = "delete_media" ->
            ("force" :> ZBoolean(FALSE)) @@ ("confirmDelete" :> ZBoolean(FALSE))
            @@ MediaManagementSchema
      [] tool = "generate_text" -> TextGenerationSchema
      [] tool = "analyze_image" -> ImageAnalysisSchema
      [] tool = "batch_analyze_images" ->
            ("imageUrls" :> ZArray(TRUE, 1, 10))
            @@ ("analysisType" :> ZEnum(FALSE, {"describe", "analyze", "ocr",
                                                "vision"}))
            @@ ("comparisonMode" :> ZBoolean(FALSE))
            @@ ImageAnalysisSchema

\* the example arguments the README gives for each tool
ReadmeExample(tool) ==
    CASE tool = "generate_image_nano_banana" ->
            ("prompt" :> Str("A serene mountain landscape at sunset"))
            @@ ("style" :> Str("natural"))
            @@ ("aspectRatio" :> Str("16:9"))
            @@ ("quality" :> Str("standard"))
      [] tool = "generate_image_imagen" ->
            ("prompt" :> Str("A photorealistic portrait of a person reading a book"))
            @@ ("model" :> Str("imagen4"))
            @@ ("style" :> Str("photorealistic"))
            @@ ("quality" :> Str("high"))
      [] tool = "batch_generate_images" ->
            ("model" :> Str("nano-banana")) @@ ("items" :> Arr(2, TRUE))
      [] tool = "edit_image_with_prompt" ->
            ("imageUrl" :> Url("https://example.com/image.jpg"))
            @@ ("editType" :> Str("modify"))
            @@ ("prompt" :> Str("Change the background to a beach setting"))
      [] tool = "generate_video_veo" ->
            ("prompt" :> Str("A cat playing in a sunny garden"))
            @@ ("duration" :> Num(8, 0))
            @@ ("resolution" :> Str("1080p"))
            @@ ("style" :> Str("natural"))
      [] tool = "image_to_video" ->
            ("imageUrl" :> Url("https://example.com/portrait.jpg"))
            @@ ("prompt" :> Str("The person turns their head slightly to the left"))
            @@ ("cameraMovement" :> Str("pan"))
            @@ ("duration" :> Num(6, 0))
      [] tool = "batch_generate_videos" -> ("items" :> Arr(2, TRUE))
      [] tool = "upload_reference_image" ->
            ("imageUrl" :> Url("https://example.com/style-image.jpg"))
            @@ ("title" :> Str("Art Style Reference"))
            @@ ("description" :> Str("Impressionist art style for reference"))
            @@ ("category" :> Str("art"))
      [] tool = "list_generated_media" ->
            ("limit" :> Num(10, 0)) @@ ("offset" :> Num(0, 0))
      [] tool = "download_media" -> ("mediaId" :> Str("gemini_12345_example"))
      [] tool = "delete_media" ->
            ("mediaId" :> Str("gemini_12345_example"))
            @@ ("confirmDelete" :> Bool(TRUE))
      [] tool = "generate_text" ->
            ("prompt" :> Str("Write a creative story about AI and creativity"))
            @@ ("model" :> Str("gemini-2.5-flash"))
            @@ ("temperature" :> Num(0, 8))
            @@ ("maxTokens" :> Num(1000, 0))
      [] tool = "analyze_image" ->
            ("imageUrl" :> Url("https://example.com/photo.jpg"))
            @@ ("analysisType" :> Str("analyze"))
            @@ ("prompt" :> Str("Identify the main objects and describe the scene"))
      [] tool = "batch_analyze_images" ->
            ("imageUrls" :> Arr(2, TRUE))
            @@ ("analysisType" :> Str("describe"))
            @@ ("comparisonMode" :> Bool(TRUE))

\* an arguments object without one of its properties
Without(args, f) == [g \in (DOMAIN args) \ {f} |-> args[g]]

\* an arguments object with one property set to another value
With(args, f, v) == [g \in DOMAIN args |-> IF g = f THEN v ELSE args[g]]

\* the arguments objects a documented tool is called with: the example of
\* the README, the example with one property left out, and the example
\* with one property set to a string no enum has
DocumentedCalls(tool) ==
    {ReadmeExample(tool)}
    \cup {Without(ReadmeExample(tool), f) : f \in DOMAIN ReadmeExample(tool)}
    \cup {With(ReadmeExample(tool), f, Str("bogus")) :
             f \in DOMAIN ReadmeExample(tool)}

\* a documented tool is about to parse an arguments object
InitReadme ==
    /\ InitServers
    /\ ClassifyIdle
    /\ docTool \in DocumentedTools
    /\ docArgs \in DocumentedCalls(docTool)
    /\ parsed = "none"

\* tool.zodSchema.parse(args)
ParseArguments ==
    /\ parsed = "none"
    /\ parsed' = IF ZParses(zodSchema(docTool), docArgs)
                 THEN "accepted" ELSE "rejected"
    /\ UNCHANGED <<docTool, docArgs, mainVars, demoVars, classifyVars,
                   registryVars, mediaVars>>

NextReadme == ParseArguments

SpecReadme == InitReadme /\ [][NextReadme]_vars

(* ---------------- the catch block of the handler (index.ts) ------------ *)

\* messages a thrown value may carry
ThrownMessages == {"boom", "quota exceeded", "Invalid arguments", ""}

\* anything JavaScript can throw into `catch (error)`: a GeminiAPIError with
\* or without a code and an HTTP status, another kind of Error, or a value
\* that is no Error at all (a string, undefined)
ThrownValues ==
    [cls : {"GeminiAPIError"}, message : ThrownMessages,
     code : {"undefined", "RESOURCE_EXHAUSTED", "IMAGE_GENERATION_FAILED"},
     statusCode : {"undefined", "429"}]
    \cup [cls : {"Error", "TypeError", "MediaProcessingError", "string"},
          message : ThrownMessages, code : {"undefined"},
          statusCode : {"undefined"}]
    \cup [cls : {"undefined"}, message : {""}, code : {"undefined"},
          statusCode : {"undefined"}]

\* a value has been thrown into the catch block
InitClassify ==
    /\ InitServers
    /\ ReadmeIdle
    /\ caught \in ThrownValues
    /\ classified = 0
    /\ errorMessage = <<>>
    /\ errorMessageAgain = <<>>

\* lines 219-224 run for the caught value
Classify ==
    /\ classified = 0
    /\ classified' = 1
    /\ errorMessage' = ErrorMessage(caught)
    /\ UNCHANGED <<caught, errorMessageAgain, mainVars, demoVars, registryVars,
                   mediaVars, pureVars>>

\* ... and run once more for the same value
ClassifyAgain ==
    /\ classified = 1
    /\ classified' = 2
    /\ errorMessageAgain' = ErrorMessage(caught)
    /\ UNCHANGED <<caught, errorMessage, mainVars, demoVars, registryVars,
                   mediaVars, pureVars>>

NextClassify == Classify \/ ClassifyAgain

SpecClassify == InitClassify /\ [][NextClassify]_vars

(* ------------------------------ helpers -------------------------------- *)

\* the notifications of a log that carry total = 100
Terminal(log) == SelectSeq(log, LAMBDA t : t.total = 100)

\* the notifications of a log sent by the interval callback
Intermediate(log) == SelectSeq(log, LAMBDA t : t.total = NoTotal /\ t.progress > 0)

\* a text, as a tuple of parts, has the part p
Contains(text, p) == \E k \in 1..Len(text) : text[k] = p

\* the timer callback of invocation i runs in this step
Fires(i) == interval[i] = "due" /\ interval'[i] # "due" /\ stopCalls'[i] = stopCalls[i]

\* the last tool of a sequence of registerTool calls that has the name
LastRegistered(calls, name) ==
    calls[CHOOSE k \in 1..Len(calls) :
              /\ calls[k].name = name
              /\ \A h \in (k + 1)..Len(calls) : calls[h].name # name]

\* the names of a sequence of registerTool calls, each at its first call
RECURSIVE FirstNames(_)
FirstNames(calls) ==
    IF calls = <<>> THEN <<>>
    ELSE LET front == FirstNames(SubSeq(calls, 1, Len(calls) - 1))
             name == calls[Len(calls)].name
         IN  IF \E k \in 1..Len(front) : front[k] = name
             THEN front ELSE Append(front, name)

(* ------------------------------- claims -------------------------------- *)

\* C1: whatever executeTool rejects with while a registered tool is
\* dispatched, the handler returns exactly one response, tagged isError,
\* and throws nothing to the transport.
C1_FaultsBecomeErrorResponses ==
    \A i \in Invocations :
        thrown[i].cls # "none" =>
            /\ pc[i] = "returned"
            /\ raised[i] = <<>>
            /\ Len(responses[i]) = 1
            /\ responses[i][1].isError

\* a tool's execute ran and threw
C1_Witness ==
    \E i \in Invocations :
        /\ thrown[i].cls = "GeminiAPIError"
        /\ executeCalls[i] = 1
        /\ pc[i] = "returned"

\* C2: a dispatch of a name that is not registered raises nothing and
\* returns a response tagged isError whose text contains the name.
C2_UnknownNameReturnsError ==
    \A i \in Invocations :
        (pc[i] # "idle" /\ ~toolExists(toolName[i])) =>
            /\ raised[i] = <<>>
            /\ Len(responses[i]) = 1
            /\ responses[i][1].isError
            /\ Contains(responses[i][1].text, toolName[i])

\* C3: when execute returns the text t, the handler returns exactly one
\* response, not tagged isError, whose text is t.
C3_SuccessTextUnchanged ==
    \A i \in Invocations :
        result[i] # <<>> =>
            responses[i] = <<[text |-> result[i], isError |-> FALSE]>>

\* an execute returned a text of more than one part
C3_Witness ==
    \E i \in Invocations :
        /\ Len(result[i]) > 1
        /\ pc[i] = "returned"
        /\ executeCalls[i] = 1

\* C4: arguments that break a declared constraint of a registered tool get
\* a response tagged isError and the tool's execute is not called.
C4_InvalidArgsNeverExecute ==
    (/\ demoHandled > 0
     /\ demoRequest.name \in DemoRegistry
     /\ DemoSchemaViolated(demoRequest.name, demoRequest.args)) =>
        /\ demoResponse.isError = "true"
        /\ demoExecuteCalls = 0

\* C5: once an invocation a has been stopped, the channel of another
\* invocation b that is still executing, with a different token, sends a
\* notification every time its interval callback runs.
C5_ChannelsIndependent ==
    [][\A a, b \in Invocations :
          (/\ a # b
           /\ Truthy(progressToken[a]) /\ Truthy(progressToken[b])
           /\ progressToken[a] # progressToken[b]
           /\ executeCalls[a] > 0 /\ stopCalls[a] > 0
           /\ pc[b] = "executing"
           /\ Fires(b)) =>
              /\ Len(notifications'[b]) = Len(notifications[b]) + 1
              /\ interval'[b] = "armed"]_vars

\* C6: the status excerpt of a notification the interval callback of an
\* invocation sends is the excerpt of the last status that invocation's own
\* onProgress received.
C6_OwnStatusOnly ==
    [][\A a \in Invocations :
          (/\ Fires(a)
           /\ Len(notifications'[a]) > Len(notifications[a])
           /\ \A b \in Invocations : executeCalls[b] > 0) =>
              notifications'[a][Len(notifications'[a])].message.status
                  = OutputPreview(ownStatus[a])]_vars

\* C7: once stopProgressUpdates has been called for an invocation, its
\* interval callback sends no notification any more, also when the callback
\* was already due at the call.
C7_NoTickAfterStop ==
    [][\A i \in Invocations :
          stopCalls[i] > 0 =>
              Intermediate(notifications'[i]) = Intermediate(notifications[i])]_vars

\* an invocation with a token was stopped while its callback was due, and
\* another invocation is executing (isProcessing is true again)
C7_Witness ==
    \E i, j \in Invocations :
        /\ stopCalls[i] > 0
        /\ dueAtStop[i]
        /\ Truthy(progressToken[i])
        /\ pc[j] = "executing"
        /\ isProcessing
        /\ i # j

\* C8: every call of stopProgressUpdates on a channel that has a token
\* sends exactly one notification with progress = total = 100, with the
\* success phrase when success is true and the failure phrase otherwise.
C8_StopSendsOneFinalTick ==
    \A i \in Invocations :
        (stopCalls[i] > 0 /\ progressToken[i] # "undefined") =>
            /\ Len(Terminal(notifications[i])) = stopCalls[i]
            /\ \A k \in 1..Len(Terminal(notifications[i])) :
                  LET t == Terminal(notifications[i])[k]
                  IN  /\ t.progress = 100
                      /\ t.message.phrase =
                            IF thrown[i].cls = "none"
                            THEN "completed successfully!" ELSE "failed"

\* C9: a dispatch of a registered tool with a token sends exactly one
\* terminal notification, the success one exactly when the response is not
\* tagged isError.
C9_OneTerminalNotification ==
    \A i \in Invocations :
        (/\ pc[i] = "returned"
         /\ toolExists(toolName[i])
         /\ progressToken[i] # "undefined") =>
            /\ Len(Terminal(notifications[i])) = 1
            /\ (Terminal(notifications[i])[1].message.phrase = "completed successfully!")
                   <=> ~responses[i][1].isError

\* C10: after the handler has returned (or thrown) for an invocation, no
\* progress notification of that invocation is sent.
C10_NoNotificationAfterReturn ==
    [][\A i \in Invocations :
          pc[i] \in {"returned", "raised"} =>
              notifications'[i] = notifications[i]]_vars

\* an invocation that sent all three kinds of notification has returned
\* while another one is executing with its callback due
C10_Witness ==
    \E i, j \in Invocations :
        /\ pc[i] = "returned"
        /\ Len(Intermediate(notifications[i])) > 0
        /\ Len(Terminal(notifications[i])) = 1
        /\ pc[j] = "executing"
        /\ interval[j] = "due"

\* C11: an invocation of a registered tool that was started with a (truthy)
\* token and whose interval callback ran N times before
\* stopProgressUpdates has sent exactly N interval notifications, and its
\* last notification is the single terminal one (looked at in runs where
\* every invocation got as far as the execute of its tool).
C11_TicksMatchIntervals ==
    \A i \in Invocations :
        (/\ pc[i] = "returned"
         /\ Truthy(progressToken[i])
         /\ \A b \in Invocations : executeCalls[b] > 0) =>
            /\ Len(Intermediate(notifications[i])) = callbackRuns[i]
            /\ Len(Terminal(notifications[i])) = 1
            /\ notifications[i][Len(notifications[i])].total = 100

\* C12: an invocation dispatched without a progress token sends no
\* notification at all, and when it returns its response is the one the
\* outcome of execute determines.
C12_NoTokenNoNotification ==
    \A i \in Invocations :
        (pc[i] # "idle" /\ progressToken[i] = "undefined") =>
            /\ notifications[i] = <<>>
            /\ pc[i] = "returned" =>
                  responses[i] =
                      <<IF thrown[i].cls = "none"
                        THEN SuccessResponse(result[i])
                        ELSE ErrorResponse(toolName[i], thrown[i])>>

\* an invocation without a token ran its execute, its interval callback
\* ran, and it returned the text of execute
C12_Witness ==
    \E i \in Invocations :
        /\ progressToken[i] = "undefined"
        /\ executeCalls[i] = 1
        /\ callbackRuns[i] > 0
        /\ pc[i] = "returned"
        /\ result[i] # <<>>

\* C13: the dispatch of a name that is not registered sends no
\* notification, creates no timer, and leaves the three module variables
\* and the timer, counter and notifications of every invocation untouched.
C13_UnknownStartsNoChannel ==
    [][\A i \in Invocations :
          (pc[i] = "idle" /\ pc'[i] = "raised") =>
              /\ notifications'[i] = <<>>
              /\ interval'[i] = "none"
              /\ notifications' = notifications
              /\ interval' = interval
              /\ progress' = progress
              /\ messageIndex' = messageIndex
              /\ isProcessing' = isProcessing
              /\ currentOperationName' = currentOperationName
              /\ latestOutput' = latestOutput]_vars

\* an unregistered name was dispatched while another invocation, which has
\* sent notifications, is executing with its callback due
C13_Witness ==
    \E i, j \in Invocations :
        /\ pc[i] = "raised"
        /\ pc[j] = "executing"
        /\ interval[j] = "due"
        /\ isProcessing
        /\ Len(notifications[j]) > 1

\* C14: a dispatch of a registered tool whose arguments are rejected before
\* the tool's execute is called returns with the validation error and has
\* sent no progress notification.
C14_NoTickBeforeValidation ==
    \A i \in Invocations :
        (/\ pc[i] = "returned"
         /\ toolExists(toolName[i])
         /\ executeCalls[i] = 0) =>
            /\ thrown[i] = ValidationError(toolName[i])
            /\ notifications[i] = <<>>

\* C15: the errorMessage of the catch block is defined for every thrown
\* value and depends on nothing else: for a GeminiAPIError that carries a
\* code it has the message and that code, for any other Error it has the
\* message ("boom" for new Error("boom")), for a value that is no Error it
\* is "Unknown error occurred"; computing it again gives the same text.
C15_ErrorTextFromCause ==
    /\ classified > 0 =>
          /\ errorMessage # <<>>
          /\ (caught.cls = "GeminiAPIError" /\ caught.code # "undefined") =>
                /\ Contains(errorMessage, caught.message)
                /\ Contains(errorMessage, caught.code)
          /\ caught.cls \in {"Error", "TypeError", "MediaProcessingError"} =>
                errorMessage = <<caught.message>>
          /\ caught.cls \in {"string", "undefined"} =>
                errorMessage = <<"Unknown error occurred">>
    /\ classified > 1 => errorMessageAgain = errorMessage

\* new Error("boom") was classified twice
C15_Witness ==
    /\ classified = 2
    /\ caught.cls = "Error"
    /\ caught.message = "boom"
    /\ Contains(errorMessage, "boom")

\* C16: when the Gemini client throws a GeminiAPIError that carries a code
\* and an HTTP status, the error the handler catches for that invocation
\* carries the same code and the same status.
C16_BackendCodeReachesHandler ==
    \A i \in Invocations :
        (/\ backendFault[i].cls = "GeminiAPIError"
         /\ backendFault[i].code # "undefined"
         /\ backendFault[i].statusCode # "undefined") =>
            /\ thrown[i].code = backendFault[i].code
            /\ thrown[i].statusCode = backendFault[i].statusCode

\* C17: an invocation only moves forward (received, then executing, then
\* completed by a return or a throw; a rejected or unknown request
\* completes at once), the handler calls the tool's execute at most once,
\* and after execute has thrown the invocation neither calls it again nor
\* changes its position.
C17_ForwardOnly ==
    [][\A i \in Invocations :
          /\ pc'[i] # pc[i] =>
                <<pc[i], pc'[i]>> \in {<<"idle", "executing">>,
                                       <<"idle", "returned">>,
                                       <<"idle", "raised">>,
                                       <<"executing", "returned">>}
          /\ executeCalls'[i] >= executeCalls[i]
          /\ executeCalls'[i] <= 1
          /\ thrown[i].cls # "none" =>
                /\ executeCalls'[i] = executeCalls[i]
                /\ pc'[i] = pc[i]]_vars

\* one invocation completed with the fault of its execute, then another
\* one was dispatched, executed and completed with a result
C17_Witness ==
    \E i, j \in Invocations :
        /\ thrown[i].cls = "GeminiAPIError"
        /\ executeCalls[i] = 1
        /\ pc[i] = "returned"
        /\ pc[j] = "returned"
        /\ executeCalls[j] = 1
        /\ result[j] # <<>>

\* C18: after any calls of registerTool the registry has one entry per
\* name that was registered, a lookup of a name gives the tool registered
\* last under it, and the names are listed in the order of their first
\* registration.
C18_InsertOrReplace ==
    /\ \A k, h \in 1..Len(toolRegistry) :
          toolRegistry[k].name = toolRegistry[h].name => k = h
    /\ \A name \in RegistryNames :
          (\E k \in 1..Len(registerCalls) : registerCalls[k].name = name) =>
              Find(toolRegistry, name) = LastRegistered(registerCalls, name)
    /\ (found.name # "" /\ found.tool # Undefined) =>
          found.tool = LastRegistered(registerCalls, found.name)
    /\ ToolsList(toolRegistry) = FirstNames(registerCalls)

\* C19: when a call of the Gemini client has failed, the client sent the
\* failing request again before it threw: more than once, and not more
\* often than once plus MAX_RETRIES.
C19_FailedRequestRetried ==
    \A i \in Invocations :
        backendFault[i].cls # "none" =>
            /\ requests[i] - backendDone[i] > 1
            /\ requests[i] - backendDone[i] <= 1 + MAX_RETRIES

\* C20: when list_generated_media has just reported the whole library on
\* one page, every image or video that a generation tool returned with a
\* Media ID, and that no delete_media was asked to delete, is among the
\* reported items.
C20_GeneratedMediaListed ==
    (/\ lastTool = "list"
     /\ Len(listing.items) = listing.total) =>
        \A g \in generated :
            g.id \notin deleted =>
                \E k \in 1..Len(listing.items) : listing.items[k] = g.id

\* C21: for every tool the README documents, the zodSchema of the tool
\* accepts the example arguments the README gives for it.
C21_ReadmeExamplesParse ==
    (parsed # "none" /\ docArgs = ReadmeExample(docTool)) =>
        parsed = "accepted"

C23_InitialTickFirst ==
    \A i \in Invocations :
        (executeCalls[i] > 0 /\ progressToken[i] # "undefined") =>
            /\ notifications[i] # <<>>
            /\ notifications[i][1].progress = 0
            /\ notifications[i][1].total = NoTotal
            /\ notifications[i][1].message.phrase = "Starting"
            /\ \A k \in 2..Len(notifications[i]) :
                  notifications[i][k].progress > 0

\* C25: when the execute of an invocation settles, with a result or with a
\* fault, stopProgressUpdates clears the timer of the invocation in the
\* same step, and an invocation whose handler has returned or thrown has
\* no timer that is armed or due.
C25_TimerClearedAtSettle ==
    \A i \in Invocations :
        /\ stopCalls[i] > 0 => interval[i] = "cleared"
        /\ pc[i] \in {"returned", "raised"} => interval[i] \notin {"armed", "due"}

\* the execute of an invocation failed after its callback had run, and the
\* timer, which was armed again, is cleared
C25_Witness ==
    \E i \in Invocations :
        /\ pc[i] = "returned"
        /\ executeCalls[i] = 1
        /\ thrown[i].cls # "none"
        /\ callbackRuns[i] > 0
        /\ ~dueAtStop[i]
        /\ interval[i] = "cleared"

\* C26: the terminal notification of an invocation carries the name of the
\* tool the invocation was dispatched with, however the invocations
\* interleave (looked at in runs where every invocation got as far as the
\* execute of its tool).
C26_TerminalNamesOwnTool ==
    \A i \in Invocations :
        (\A b \in Invocations : executeCalls[b] > 0) =>
            \A k \in 1..Len(Terminal(notifications[i])) :
                Terminal(notifications[i])[k].message.op = toolName[i]

\* C28: an invocation dispatched with a progress token, whatever the value
\* of the token, is sent the initial notification when it starts, one
\* interval notification for each run of its callback while no other
\* invocation of a registered tool was dispatched, and the terminal
\* notification when it returns.
C28_EveryTokenGetsTicks ==
    \A i \in Invocations :
        (executeCalls[i] > 0 /\ progressToken[i] # "undefined") =>
            /\ Len(SelectSeq(notifications[i], LAMBDA t : t.progress = 0)) = 1
            /\ (\A j \in Invocations \ {i} : pc[j] \in {"idle", "raised"}) =>
                  Len(Intermediate(notifications[i])) = callbackRuns[i]
            /\ pc[i] = "returned" => Len(Terminal(notifications[i])) = 1

\* C24: while an invocation is the only one that dispatched a registered
\* tool, each interval notification it sends carries the rotating phase
\* message of its index and, as status, the last SliceLen characters of the
\* status its execute pushed last before the callback ran (nothing when no
\* status was pushed).
C24_TickShowsLatestStatus ==
    [][\A i \in Invocations :
          (/\ Fires(i)
           /\ \A j \in Invocations \ {i} : pc[j] \in {"idle", "raised"}
           /\ Len(notifications'[i]) > Len(notifications[i])) =>
              LET t == notifications'[i][Len(notifications'[i])]
              IN  /\ t.message.phrase =
                        progressMessages[(messageIndex[i] % Len(progressMessages)) + 1]
                  /\ t.message.status = Slice(ownStatus[i], SliceLen)]_vars

\* a batch, the only invocation, went on to its second item, and the
\* notification sent last is an interval one with the status of that item
C24_Witness ==
    \E i \in Invocations :
        /\ \A j \in Invocations \ {i} : pc[j] \in {"idle", "raised"}
        /\ pc[i] = "executing"
        /\ backendDone[i] = 1
        /\ notifications[i] # <<>>
        /\ LET t == notifications[i][Len(notifications[i])]
           IN  /\ t.progress > 0
               /\ t.total = NoTotal
               /\ t.message.status = GeneratingImageStatus(2, BatchItems)

\* C27: the progress values of the notifications of one invocation with a
\* token, alone in the server, never go down in the order they are sent:
\* 0 for the initial one, one more for each interval, 100 for the terminal
\* one, however many intervals the operation runs for.
C27_ProgressNeverDecreases ==
    \A i \in Invocations :
        (/\ Truthy(progressToken[i])
         /\ \A j \in Invocations \ {i} : pc[j] \in {"idle", "raised"}) =>
            \A k \in 1..(Len(notifications[i]) - 1) :
                notifications[i][k].progress <= notifications[i][k + 1].progress

C30_RequiredHasNoDefault ==
    demoTools.listed =>
        \A name \in DemoRegistry :
            demoTools.required[name] =
                {key \in DOMAIN DemoSchema(name) : DemoSchema(name)[key] = "undefined"}

====
